---- MODULE Spec2Model ----
(***************************************************************************)
(* Model of the notes application of src/notes_frontend/src/App.js: the    *)
(* LocalStorageProvider (one JSON blob under LS_KEY), the useReducer state *)
(* machine, the derived lists of App and the three async handlers.         *)
(*                                                                         *)
(* Text is modelled as a sequence of one-character strings, so that        *)
(* trim(), toLowerCase(), includes(), split() and the default sort() of    *)
(* strings are computed and not assumed.                                   *)
(***************************************************************************)
EXTENDS Integers, Sequences, FiniteSets, TLC

VARIABLES
    storage,    \* localStorage item under LS_KEY
    state,      \* the useReducer state of App
    pc,         \* "loading" | "idle" | "save" | "delete" | "togglePin":
                \* the handler whose await is pending, if any
    pending,    \* what that handler dispatches when its await resumes
    now,        \* value the next call of Date.now() returns
    nextId,     \* source of the ids uid() returns
    thrown,     \* error with which the last handler call rejected, or "none"
    wpc,        \* per provider sharing LS_KEY: "idle" | "read" (its call has
                \* run readLocal() and not yet writeLocal())
    wop,        \* per provider: the call in progress
    wsnap,      \* per provider: what readLocal() returned to that call
    wlast       \* how the last call of a provider ended: "none" (no call yet),
                \* "failed" (it threw), "lost" (it wrote, and a note stored
                \* since its read is gone) or "kept" (it wrote, no such note)

vars == <<storage, state, pc, pending, now, nextId, thrown, wpc, wop, wsnap, wlast>>

writerVars == <<wpc, wop, wsnap, wlast>>

----------------------------------------------------------------------------
(* Bounds *)

MaxIds == 2      \* ids uid() hands out
MaxTime == 3     \* values Date.now() hands out; successive calls are taken to
                 \* be more than a clock tick apart, so each returns a larger
                 \* value than the one before

----------------------------------------------------------------------------
(* JavaScript values *)

NULL == [null |-> TRUE]

\* x || y on numbers: 0 is falsy
OrElse(x, y) == IF x = 0 THEN y ELSE x

\* String.prototype.toLowerCase on the characters in use
LowerChar(c) == IF c = "A" THEN "a" ELSE IF c = "B" THEN "b" ELSE c

toLowerCase(s) == [i \in 1..Len(s) |-> LowerChar(s[i])]

IsSpace(c) == c = " "

RECURSIVE trimStart(_)
trimStart(s) ==
    IF s # <<>> /\ IsSpace(Head(s)) THEN trimStart(Tail(s)) ELSE s

RECURSIVE trimEnd(_)
trimEnd(s) ==
    IF s # <<>> /\ IsSpace(s[Len(s)]) THEN trimEnd(SubSeq(s, 1, Len(s) - 1)) ELSE s

\* String.prototype.trim
trim(s) == trimEnd(trimStart(s))

\* String.prototype.includes
includes(s, q) ==
    \E i \in 0..(Len(s) - Len(q)) : SubSeq(s, i + 1, i + Len(q)) = q

\* UTF-16 code units of the characters in use
CharCode(c) ==
    CASE c = " " -> 32
      [] c = "," -> 44
      [] c = "A" -> 65
      [] c = "B" -> 66
      [] c = "a" -> 97
      [] c = "b" -> 98

\* s < t in code-unit order, the order of Array.prototype.sort() without comparator
RECURSIVE StrLess(_, _)
StrLess(s, t) ==
    IF t = <<>> THEN FALSE
    ELSE IF s = <<>> THEN TRUE
    ELSE IF CharCode(Head(s)) # CharCode(Head(t))
         THEN CharCode(Head(s)) < CharCode(Head(t))
         ELSE StrLess(Tail(s), Tail(t))

\* String.prototype.split(sep) for a one-character separator
RECURSIVE splitFrom(_, _, _)
splitFrom(s, sep, cur) ==
    IF s = <<>> THEN <<cur>>
    ELSE IF Head(s) = sep THEN <<cur>> \o splitFrom(Tail(s), sep, <<>>)
    ELSE splitFrom(Tail(s), sep, Append(cur, Head(s)))

split(s, sep) == splitFrom(s, sep, <<>>)

\* elements of an array
Elems(arr) == {arr[i] : i \in 1..Len(arr)}

\* Array.prototype.filter, the callback given as the set of elements it accepts
filter(arr, accepted) ==
    LET F[i \in 0..Len(arr)] ==
            IF i = 0 THEN <<>>
            ELSE IF arr[i] \in accepted THEN Append(F[i - 1], arr[i]) ELSE F[i - 1]
    IN F[Len(arr)]

\* Array.prototype.sort(compare), the comparator given as the function
\* compare[a, b] on the elements: stable; each element goes before the first
\* element already placed that compare puts after it
sort(arr, compare) ==
    LET Insert(x, s) ==
            LET later == {j \in 1..Len(s) : compare[x, s[j]] < 0}
                pos == IF later = {} THEN Len(s) + 1
                       ELSE CHOOSE j \in later : \A k \in later : j <= k
            IN SubSeq(s, 1, pos - 1) \o <<x>> \o SubSeq(s, pos, Len(s))
        F[i \in 0..Len(arr)] ==
            IF i = 0 THEN <<>> ELSE Insert(arr[i], F[i - 1])
    IN F[Len(arr)]

\* { ...a, ...b }
Spread(a, b) ==
    [f \in (DOMAIN a) \cup (DOMAIN b) |-> IF f \in DOMAIN b THEN b[f] ELSE a[f]]

----------------------------------------------------------------------------
(* LocalStorage implementation *)

\* texts an item of localStorage can hold: "", one that is not JSON, or the
\* JSON text of a value (an array with its items, or a value that is no array)
EmptyText == [kind |-> "empty"]
InvalidText == [kind |-> "invalid"]
ObjectText == [kind |-> "json", value |-> [isArray |-> FALSE]]

\* how a call ends: it returns a value or throws an error
Return(v) == [threw |-> "none", value |-> v]
Throw(e) == [threw |-> e, value |-> NULL]

JSONstringify(arr) == [kind |-> "json", value |-> [isArray |-> TRUE, items |-> arr]]

JSONparse(raw) == IF raw.kind = "json" THEN Return(raw.value) ELSE Throw("SyntaxError")

\* !raw for what getItem returns: null and "" are falsy
Falsy(raw) == raw = NULL \/ raw.kind = "empty"

\* the try block of readLocal
tryReadLocal(item) ==
    IF Falsy(item) THEN Return(<<>>)
    ELSE LET parsed == JSONparse(item)
         IN IF parsed.threw # "none" THEN parsed
            ELSE Return(IF parsed.value.isArray THEN parsed.value.items ELSE <<>>)

\* readLocal without its catch
readLocal_NoCatch(item) == tryReadLocal(item)

readLocal(item) ==
    LET r == tryReadLocal(item)
    IN IF r.threw # "none" THEN Return(<<>>) ELSE r

\* localStorage.setItem(LS_KEY, JSON.stringify(notes)); quotaOk says whether
\* setItem accepts the write. Yields the error thrown and the item afterwards.
writeLocal(item, notes, quotaOk) ==
    IF quotaOk
    THEN [threw |-> "none", item |-> JSONstringify(notes)]
    ELSE [threw |-> "QuotaExceededError", item |-> item]

\* Array.prototype.findIndex of the note with this id: -1 when there is none
findIndex(notes, id) ==
    IF \E i \in 1..Len(notes) : notes[i].id = id
    THEN CHOOSE i \in 1..Len(notes) :
            /\ notes[i].id = id
            /\ \A j \in 1..(i - 1) : notes[j].id # id
    ELSE -1

\* A provider call yields the error it threw ("none" if it returned), the
\* item under LS_KEY afterwards and the value it returned.
Outcome(w, v) ==
    [threw |-> w.threw, item |-> w.item, value |-> IF w.threw = "none" THEN v ELSE NULL]

Failed(e, item) == [threw |-> e, item |-> item, value |-> NULL]

list(item) == readLocal(item)

\* The methods after their readLocal(): notes is what it returned, item the
\* item under LS_KEY when writeLocal runs.

\* create() that reads the stored notes again when it writes
createFrom_Rereads(notes, item, note, quotaOk) ==
    Outcome(writeLocal(item, Append(readLocal(item).value, note), quotaOk), note)

createFrom(notes, item, note, quotaOk) ==
    Outcome(writeLocal(item, Append(notes, note), quotaOk), note)

\* update() that adds the note when the id is not found
updateFrom_CreatesMissing(notes, item, id, patch, t, quotaOk) ==
    LET idx == findIndex(notes, id)
        blank == [id |-> id, title |-> <<>>, content |-> <<>>, tags |-> <<>>,
                  createdAt |-> t, updatedAt |-> t, pinned |-> FALSE]
        updated == Spread(Spread(IF idx = -1 THEN blank ELSE notes[idx], patch),
                          [updatedAt |-> t])
    IN Outcome(writeLocal(item,
                          IF idx = -1 THEN Append(notes, updated)
                          ELSE [notes EXCEPT ![idx] = updated],
                          quotaOk),
               updated)

\* update() that stamps createdAt as well as updatedAt
updateFrom_ResetsCreatedAt(notes, item, id, patch, t, quotaOk) ==
    LET idx == findIndex(notes, id)
    IN IF idx = -1 THEN Failed("Note not found", item)
       ELSE LET updated == Spread(Spread(notes[idx], patch),
                                  [createdAt |-> t, updatedAt |-> t])
            IN Outcome(writeLocal(item, [notes EXCEPT ![idx] = updated], quotaOk),
                       updated)

updateFrom(notes, item, id, patch, t, quotaOk) ==
    LET idx == findIndex(notes, id)
    IN IF idx = -1 THEN Failed("Note not found", item)
       ELSE LET updated == Spread(Spread(notes[idx], patch), [updatedAt |-> t])
            IN Outcome(writeLocal(item, [notes EXCEPT ![idx] = updated], quotaOk),
                       updated)

\* remove() that filters the notes and forgets to write them back
removeFrom_NoWrite(notes, item, id, quotaOk) ==
    [threw |-> "none", item |-> item, value |-> TRUE]

removeFrom(notes, item, id, quotaOk) ==
    LET filtered == filter(notes, {n \in Elems(notes) : n.id # id})
    IN Outcome(writeLocal(item, filtered, quotaOk), TRUE)

\* The methods as one call runs them: nothing comes between its readLocal()
\* and its writeLocal().
create(item, note, quotaOk) ==
    LET rd == readLocal(item)
    IN IF rd.threw # "none" THEN Failed(rd.threw, item)
       ELSE createFrom(rd.value, item, note, quotaOk)

update(item, id, patch, t, quotaOk) ==
    LET rd == readLocal(item)
    IN IF rd.threw # "none" THEN Failed(rd.threw, item)
       ELSE updateFrom(rd.value, item, id, patch, t, quotaOk)

remove(item, id, quotaOk) ==
    LET rd == readLocal(item)
    IN IF rd.threw # "none" THEN Failed(rd.threw, item)
       ELSE removeFrom(rd.value, item, id, quotaOk)

normalizeTag(t) == toLowerCase(trim(t))

----------------------------------------------------------------------------
(* State management with useReducer *)

ALL == <<"a", "l", "l">>

initialState ==
    [loading |-> TRUE, notes |-> <<>>, search |-> <<>>, selectedTag |-> ALL,
     editorOpen |-> FALSE, editingNote |-> NULL]

\* the comparator of the reducer's notes.sort
compareUpsert(a, b) ==
    IF a.pinned /\ ~b.pinned THEN -1
    ELSE IF ~a.pinned /\ b.pinned THEN 1
    ELSE b.updatedAt - a.updatedAt

\* UPSERT_NOTE without notes.sort
upsert_NoSort(notes, note) ==
    LET exists == \E i \in 1..Len(notes) : notes[i].id = note.id
    IN IF exists
       THEN [i \in 1..Len(notes) |-> IF notes[i].id = note.id THEN note ELSE notes[i]]
       ELSE <<note>> \o notes

\* UPSERT_NOTE that adds the note even when its id is already listed
upsert_AlwaysAdds(notes, note) ==
    LET merged == <<note>> \o notes
    IN sort(merged, [a \in Elems(merged), b \in Elems(merged) |-> compareUpsert(a, b)])

upsert(notes, note) ==
    LET exists == \E i \in 1..Len(notes) : notes[i].id = note.id
        merged ==
            IF exists
            THEN [i \in 1..Len(notes) |-> IF notes[i].id = note.id THEN note ELSE notes[i]]
            ELSE <<note>> \o notes
    IN sort(merged, [a \in Elems(merged), b \in Elems(merged) |-> compareUpsert(a, b)])

\* DELETE_NOTE with the filter's test the wrong way round
deleteNote_Inverted(notes, id) == filter(notes, {n \in Elems(notes) : n.id = id})

deleteNote(notes, id) == filter(notes, {n \in Elems(notes) : n.id # id})

\* a reducer whose SET_SEARCH also resets the tag filter
reducer_SearchResetsTag(st, action) ==
    CASE action.type = "INIT" ->
            [st EXCEPT !.loading = FALSE, !.notes = action.notes]
      [] action.type = "SET_SEARCH" ->
            [st EXCEPT !.search = action.value, !.selectedTag = ALL]
      [] action.type = "SET_TAG" ->
            [st EXCEPT !.selectedTag = action.value]
      [] action.type = "OPEN_EDITOR" ->
            [st EXCEPT !.editorOpen = TRUE, !.editingNote = action.note]
      [] action.type = "CLOSE_EDITOR" ->
            [st EXCEPT !.editorOpen = FALSE, !.editingNote = NULL]
      [] action.type = "UPSERT_NOTE" ->
            [st EXCEPT !.notes = upsert(st.notes, action.note)]
      [] action.type = "DELETE_NOTE" ->
            [st EXCEPT !.notes = deleteNote(st.notes, action.id)]
      [] OTHER -> st

reducer(st, action) ==
    CASE action.type = "INIT" ->
            [st EXCEPT !.loading = FALSE, !.notes = action.notes]
      [] action.type = "SET_SEARCH" ->
            [st EXCEPT !.search = action.value]
      [] action.type = "SET_TAG" ->
            [st EXCEPT !.selectedTag = action.value]
      [] action.type = "OPEN_EDITOR" ->
            [st EXCEPT !.editorOpen = TRUE, !.editingNote = action.note]
      [] action.type = "CLOSE_EDITOR" ->
            [st EXCEPT !.editorOpen = FALSE, !.editingNote = NULL]
      [] action.type = "UPSERT_NOTE" ->
            [st EXCEPT !.notes = upsert(st.notes, action.note)]
      [] action.type = "DELETE_NOTE" ->
            [st EXCEPT !.notes = deleteNote(st.notes, action.id)]
      [] OTHER -> st

----------------------------------------------------------------------------
(* Root App: derived values *)

\* the Set filled by notes.forEach(n => n.tags.forEach(t => s.add(t))), in
\* insertion order
tagSet(notes) ==
    LET AddAll(s, ts) ==
            LET G[i \in 0..Len(ts)] ==
                    IF i = 0 THEN s
                    ELSE IF ts[i] \in Elems(G[i - 1]) THEN G[i - 1]
                    ELSE Append(G[i - 1], ts[i])
            IN G[Len(ts)]
        F[i \in 0..Len(notes)] ==
            IF i = 0 THEN <<>> ELSE AddAll(F[i - 1], notes[i].tags)
    IN F[Len(notes)]

\* the order of sort() without a comparator
compareDefault(a, b) == IF StrLess(a, b) THEN -1 ELSE IF StrLess(b, a) THEN 1 ELSE 0

\* Array.from(s) without .sort()
tagsOf_Unsorted(notes) == tagSet(notes)

tagsOf(notes) ==
    LET s == tagSet(notes)
    IN sort(s, [a \in Elems(s), b \in Elems(s) |-> compareDefault(a, b)])

tags == tagsOf(state.notes)

\* the query test without toLowerCase() on the note's text
matchesQuery_CaseSensitive(n, q) ==
    \/ q = <<>>
    \/ includes(n.title, q)
    \/ includes(n.content, q)

matchesQuery(n, q) ==
    \/ q = <<>>
    \/ includes(toLowerCase(n.title), q)
    \/ includes(toLowerCase(n.content), q)

matchesTag(n, selectedTag) ==
    \/ selectedTag = ALL
    \/ normalizeTag(selectedTag) \in Elems([i \in 1..Len(n.tags) |-> normalizeTag(n.tags[i])])

filterNotes(notes, search, selectedTag) ==
    LET q == toLowerCase(trim(search))
    IN filter(notes, {n \in Elems(notes) : matchesQuery(n, q) /\ matchesTag(n, selectedTag)})

filteredNotes == filterNotes(state.notes, state.search, state.selectedTag)

compareLoad(a, b) ==
    IF a.pinned /\ ~b.pinned THEN -1
    ELSE IF ~a.pinned /\ b.pinned THEN 1
    ELSE OrElse(b.updatedAt, b.createdAt) - OrElse(a.updatedAt, a.createdAt)

sortNotes(arr) == sort(arr, [a \in Elems(arr), b \in Elems(arr) |-> compareLoad(a, b)])

----------------------------------------------------------------------------
(* EditorForm *)

\* what the user may have typed when the form is submitted:
\* title, content, the comma-separated tags field, the Pin checkbox
FormInputs ==
    { [title |-> <<" ", "A", "b">>, content |-> <<>>,
       tagsInput |-> <<"b", ",", " ", "A">>, pinned |-> FALSE],
      [title |-> <<>>, content |-> <<"b", "a">>,
       tagsInput |-> <<" ", ",", "a">>, pinned |-> TRUE] }

onSubmit(input) ==
    LET pieces == split(input.tagsInput, ",")
        normalized == [i \in 1..Len(pieces) |-> normalizeTag(pieces[i])]
    IN [title |-> trim(input.title),
        content |-> input.content,
        tags |-> filter(normalized, {t \in Elems(normalized) : t # <<>>}),
        pinned |-> input.pinned]

\* what the user may type in the search box
SearchInputs == { <<>>, <<" ", "A", "b">>, <<"B", "a">> }

----------------------------------------------------------------------------
(* Root App: mount, load, events and handlers *)

InitItems == {NULL, EmptyText, InvalidText, ObjectText}

Writers == {1, 2}

Init ==
    /\ storage \in InitItems
    /\ state = initialState
    /\ pc = "loading"
    /\ pending = NULL
    /\ now = 1
    /\ nextId = 1
    /\ thrown = "none"
    /\ wpc = [w \in Writers |-> "idle"]
    /\ wop = [w \in Writers |-> NULL]
    /\ wsnap = [w \in Writers |-> <<>>]
    /\ wlast = "none"

\* the effect that loads the notes: await provider.list(), then INIT; when
\* list() throws nothing is dispatched
loadNotes ==
    /\ pc = "loading"
    /\ LET r == list(storage)
       IN /\ state' = IF r.threw = "none"
                      THEN reducer(state, [type |-> "INIT", notes |-> sortNotes(r.value)])
                      ELSE state
          /\ thrown' = r.threw
    /\ pc' = "idle"
    /\ UNCHANGED <<storage, pending, now, nextId>>
    /\ UNCHANGED writerVars

\* the page is loaded again: App mounts with initialState, storage is kept
mount ==
    /\ pc = "idle"
    /\ state' = initialState
    /\ pc' = "loading"
    /\ thrown' = "none"
    /\ UNCHANGED <<storage, pending, now, nextId>>
    /\ UNCHANGED writerVars

dispatch(action) == state' = reducer(state, action)

\* an event whose handler only dispatches
uiEvent ==
    /\ pc = "idle"
    /\ thrown' = "none"
    /\ UNCHANGED <<storage, pc, pending, now, nextId>>
    /\ UNCHANGED writerVars

onSearch ==
    /\ uiEvent
    /\ \E value \in SearchInputs : dispatch([type |-> "SET_SEARCH", value |-> value])

setSelectedTag ==
    /\ uiEvent
    /\ \E value \in {ALL} \cup Elems(tags) : dispatch([type |-> "SET_TAG", value |-> value])

onNew ==
    /\ uiEvent
    /\ dispatch([type |-> "OPEN_EDITOR", note |-> NULL])

onOpen ==
    /\ uiEvent
    /\ \E n \in Elems(filteredNotes) : dispatch([type |-> "OPEN_EDITOR", note |-> n])

onClose ==
    /\ uiEvent
    /\ state.editorOpen
    /\ dispatch([type |-> "CLOSE_EDITOR"])

\* the call of a handler up to its await: the provider call has run; when it
\* threw the handler is over, otherwise its dispatch is due
awaitProvider(handler, r, toDispatch) ==
    /\ storage' = r.item
    /\ thrown' = r.threw
    /\ pc' = IF r.threw = "none" THEN handler ELSE "idle"
    /\ pending' = IF r.threw = "none" THEN toDispatch ELSE NULL
    /\ UNCHANGED state

\* update() reads the clock unless it throws 'Note not found' first
clockAfterUpdate(r) == IF r.threw = "Note not found" THEN now ELSE now + 1

handleSaveNote ==
    /\ pc = "idle"
    /\ state.editorOpen
    /\ now <= MaxTime
    /\ \E input \in FormInputs, quotaOk \in BOOLEAN :
          LET partial == onSubmit(input)
          IN IF state.editingNote # NULL
             THEN LET r == update(storage, state.editingNote.id, partial, now, quotaOk)
                  IN /\ awaitProvider("save", r, r.value)
                     /\ now' = clockAfterUpdate(r)
                     /\ UNCHANGED nextId
             ELSE /\ nextId <= MaxIds
                  /\ now' = now + 1
                  /\ LET newNote == [id |-> nextId,
                                     title |-> partial.title,
                                     content |-> partial.content,
                                     tags |-> partial.tags,
                                     createdAt |-> now,
                                     updatedAt |-> now,
                                     pinned |-> partial.pinned]
                     IN awaitProvider("save", create(storage, newNote, quotaOk), newNote)
                  /\ nextId' = nextId + 1
    /\ UNCHANGED writerVars

\* handleSaveNote that leaves the editor open after the UPSERT_NOTE dispatch
handleSaveNoteDispatch_NoClose ==
    /\ pc = "save"
    /\ state' = reducer(state, [type |-> "UPSERT_NOTE", note |-> pending])
    /\ pc' = "idle"
    /\ pending' = NULL
    /\ UNCHANGED <<storage, now, nextId, thrown>>
    /\ UNCHANGED writerVars

handleSaveNoteDispatch ==
    /\ pc = "save"
    /\ state' = reducer(reducer(state, [type |-> "UPSERT_NOTE", note |-> pending]),
                        [type |-> "CLOSE_EDITOR"])
    /\ pc' = "idle"
    /\ pending' = NULL
    /\ UNCHANGED <<storage, now, nextId, thrown>>
    /\ UNCHANGED writerVars

\* handleDelete that dispatches DELETE_NOTE without awaiting the provider
handleDelete_DispatchAtOnce ==
    /\ pc = "idle"
    /\ ~state.loading
    /\ \E id \in 1..(nextId - 1), quotaOk \in BOOLEAN :
          LET r == remove(storage, id, quotaOk)
          IN /\ storage' = r.item
             /\ thrown' = r.threw
             /\ state' = reducer(state, [type |-> "DELETE_NOTE", id |-> id])
    /\ UNCHANGED <<pc, pending, now, nextId>>
    /\ UNCHANGED writerVars

\* id: of a card of the list, or of a card whose note has since been deleted
handleDelete ==
    /\ pc = "idle"
    /\ ~state.loading
    /\ \E id \in 1..(nextId - 1), quotaOk \in BOOLEAN :
          awaitProvider("delete", remove(storage, id, quotaOk), id)
    /\ UNCHANGED <<now, nextId>>
    /\ UNCHANGED writerVars

handleDeleteDispatch ==
    /\ pc = "delete"
    /\ state' = reducer(state, [type |-> "DELETE_NOTE", id |-> pending])
    /\ pc' = "idle"
    /\ pending' = NULL
    /\ UNCHANGED <<storage, now, nextId, thrown>>
    /\ UNCHANGED writerVars

handleTogglePin ==
    /\ pc = "idle"
    /\ now <= MaxTime
    /\ \E note \in Elems(filteredNotes), quotaOk \in BOOLEAN :
          LET r == update(storage, note.id, [pinned |-> ~note.pinned], now, quotaOk)
          IN /\ awaitProvider("togglePin", r, r.value)
             /\ now' = clockAfterUpdate(r)
    /\ UNCHANGED nextId
    /\ UNCHANGED writerVars

handleTogglePinDispatch ==
    /\ pc = "togglePin"
    /\ state' = reducer(state, [type |-> "UPSERT_NOTE", note |-> pending])
    /\ pc' = "idle"
    /\ pending' = NULL
    /\ UNCHANGED <<storage, now, nextId, thrown>>
    /\ UNCHANGED writerVars

Next ==
    \/ loadNotes
    \/ mount
    \/ onSearch
    \/ setSelectedTag
    \/ onNew
    \/ onOpen
    \/ onClose
    \/ handleSaveNote
    \/ handleSaveNoteDispatch
    \/ handleDelete
    \/ handleDeleteDispatch
    \/ handleTogglePin
    \/ handleTogglePinDispatch

Spec == Init /\ [][Next]_vars

---------------------------------------------------------------------------------------------------------------------------------------------------
(* Providers sharing LS_KEY: each call is its readLocal() and, as a later  *)
(* step, the rest of the method, so that calls of two providers interleave *)

\* patches passed to update()
Patches == {[pinned |-> TRUE], [pinned |-> FALSE]}

\* the form input from which the notes passed to create() are made
WriterInputs == {f \in FormInputs : f.pinned}

beginCall(w, op) ==
    /\ wpc[w] = "idle"
    /\ wpc' = [wpc EXCEPT ![w] = "read"]
    /\ wop' = [wop EXCEPT ![w] = op]
    /\ wsnap' = [wsnap EXCEPT ![w] = readLocal(storage).value]
    /\ UNCHANGED <<storage, state, pc, pending, thrown, wlast>>

endCall(w, r) ==
    /\ storage' = r.item
    /\ wlast' = IF r.threw # "none" THEN "failed"
                ELSE IF \E n \in Elems(readLocal(storage).value) :
                           n \notin Elems(wsnap[w]) /\ n \notin Elems(readLocal(r.item).value)
                     THEN "lost"
                     ELSE "kept"
    /\ wpc' = [wpc EXCEPT ![w] = "idle"]
    /\ wop' = [wop EXCEPT ![w] = NULL]
    /\ wsnap' = [wsnap EXCEPT ![w] = <<>>]
    /\ UNCHANGED <<state, pc, pending, thrown, nextId>>

createRead ==
    \E w \in Writers, input \in WriterInputs :
       /\ nextId <= MaxIds
       /\ now <= MaxTime
       /\ LET partial == onSubmit(input)
              newNote == [id |-> nextId,
                          title |-> partial.title,
                          content |-> partial.content,
                          tags |-> partial.tags,
                          createdAt |-> now,
                          updatedAt |-> now,
                          pinned |-> partial.pinned]
          IN beginCall(w, [type |-> "create", note |-> newNote])
       /\ nextId' = nextId + 1
       /\ now' = now + 1

updateRead ==
    \E w \in Writers, id \in 1..(nextId - 1), patch \in Patches :
       /\ now <= MaxTime
       /\ beginCall(w, [type |-> "update", id |-> id, patch |-> patch])
       /\ UNCHANGED <<now, nextId>>

removeRead ==
    \E w \in Writers, id \in 1..(nextId - 1) :
       /\ beginCall(w, [type |-> "remove", id |-> id])
       /\ UNCHANGED <<now, nextId>>

createWrite ==
    \E w \in Writers, quotaOk \in BOOLEAN :
       /\ wpc[w] = "read"
       /\ wop[w].type = "create"
       /\ endCall(w, createFrom(wsnap[w], storage, wop[w].note, quotaOk))
       /\ UNCHANGED now

updateWrite ==
    \E w \in Writers, quotaOk \in BOOLEAN :
       /\ wpc[w] = "read"
       /\ wop[w].type = "update"
       /\ LET r == updateFrom(wsnap[w], storage, wop[w].id, wop[w].patch, now, quotaOk)
          IN /\ endCall(w, r)
             /\ now' = clockAfterUpdate(r)

removeWrite ==
    \E w \in Writers, quotaOk \in BOOLEAN :
       /\ wpc[w] = "read"
       /\ wop[w].type = "remove"
       /\ endCall(w, removeFrom(wsnap[w], storage, wop[w].id, quotaOk))
       /\ UNCHANGED now

NextWriters ==
    \/ createRead
    \/ createWrite
    \/ updateRead
    \/ updateWrite
    \/ removeRead
    \/ removeWrite

SpecWriters == Init /\ [][NextWriters]_vars

-----
(* Vocabulary of the properties *)

\* the collection persisted in storage
Persisted == readLocal(storage).value

IdsOf(notes) == {notes[i].id : i \in 1..Len(notes)}

AwaitingDispatch == pc \in {"save", "delete", "togglePin"}

Loaded == pc # "loading" /\ ~state.loading

\* sub is seq restricted to its elements that satisfy P, in the order of seq
IsSelection(sub, seq, P(_)) ==
    LET hits == {i \in 1..Len(seq) : P(seq[i])}
        Kth(k) == CHOOSE i \in hits : Cardinality({j \in hits : j <= i}) = k
    IN /\ Len(sub) = Cardinality(hits)
       /\ \A k \in 1..Len(sub) : sub[k] = seq[Kth(k)]

\* the two collections hold the same notes, order aside
SameNotes(xs, ys) ==
    /\ Len(xs) = Len(ys)
    /\ IdsOf(xs) = IdsOf(ys)
    /\ \A i \in 1..Len(xs), j \in 1..Len(ys) :
          xs[i].id = ys[j].id =>
             /\ xs[i].title = ys[j].title
             /\ xs[i].content = ys[j].content
             /\ xs[i].tags = ys[j].tags
             /\ xs[i].pinned = ys[j].pinned
             /\ xs[i].createdAt = ys[j].createdAt
             /\ xs[i].updatedAt = ys[j].updatedAt

----------------------------------------------------------------------------
(* C1: once INIT has run and no handler is between its provider call and  *)
(* its dispatch, state.notes and the collection in storage hold the same  *)
(* notes: the same ids and, per id, the same title, content, tags,        *)
(* pinned, createdAt and updatedAt, whatever the order.                    *)
C1_StateMatchesStorage ==
    (Loaded /\ ~AwaitingDispatch) => SameNotes(state.notes, Persisted)

\* two notes are kept, one of them edited after its creation, and the last
\* handler call has just failed on a refused write
C1_Witness ==
    /\ Loaded /\ ~AwaitingDispatch
    /\ Len(state.notes) = 2
    /\ \E i \in 1..2 : state.notes[i].updatedAt > state.notes[i].createdAt
    /\ thrown = "QuotaExceededError"

(* C2 as stated: the reducer has updated the in-memory state before the    *)
(* provider persists, so a step that changes the stored item leaves no     *)
(* dispatch outstanding and the state already shows the stored notes.      *)
C2_DispatchThenPersist ==
    [][storage' # storage =>
          pc' = "idle" /\ SameNotes(state'.notes, readLocal(storage').value)]_vars

(* C2 amended: the provider persists first and the action is dispatched   *)
(* afterwards: the step that changes the stored item leaves the state     *)
(* untouched with the handler's dispatch outstanding, and the step in     *)
(* which the reducer changes state.notes for a handler leaves storage     *)
(* untouched and ends that handler.                                        *)
C2_PersistThenDispatch ==
    [][/\ storage' # storage =>
             state' = state /\ pc = "idle" /\ pc' \in {"save", "delete", "togglePin"}
       /\ (state'.notes # state.notes /\ pc # "loading" /\ pc' # "loading") =>
             storage' = storage /\ pc \in {"save", "delete", "togglePin"} /\ pc' = "idle"
      ]_vars

\* a new note is in storage and not yet in state.notes
C2_Witness ==
    /\ pc = "save"
    /\ pending.id \in IdsOf(Persisted)
    /\ pending.id \notin IdsOf(state.notes)

(* C3: the filtered list is state.notes, in its order, restricted to the  *)
(* notes for which (1) the trimmed, lowercased search text is empty or    *)
(* occurs in the lowercased title or content and (2) selectedTag is 'all' *)
(* or its normalized form is the normalized form of one of the note's     *)
(* tags.                                                                   *)
C3_FilteredNotesExact ==
    LET q == toLowerCase(trim(state.search))
        Wanted(n) ==
            /\ \/ Len(q) = 0
               \/ includes(toLowerCase(n.title), q)
               \/ includes(toLowerCase(n.content), q)
            /\ \/ state.selectedTag = ALL
               \/ \E i \in 1..Len(n.tags) :
                     toLowerCase(trim(n.tags[i])) = toLowerCase(trim(state.selectedTag))
    IN IsSelection(filteredNotes, state.notes, Wanted)

\* a search text and a tag are set and keep one of two notes
C3_Witness ==
    /\ Len(state.notes) = 2
    /\ Len(filteredNotes) = 1
    /\ state.search # <<>>
    /\ state.selectedTag # ALL

(* C4: the tag list has no duplicates, is sorted, and holds exactly the   *)
(* tags carried by at least one note of state.notes.                       *)
C4_TagsExact ==
    /\ \A i, j \in 1..Len(tags) : i < j => tags[i] # tags[j]
    /\ \A i \in 1..(Len(tags) - 1) : StrLess(tags[i], tags[i + 1])
    /\ Elems(tags) = UNION {Elems(state.notes[i].tags) : i \in 1..Len(state.notes)}

\* two tags are listed, one of them carried by both notes
C4_Witness ==
    /\ Len(state.notes) = 2
    /\ Len(tags) = 2
    /\ \E t \in Elems(tags) : \A i \in 1..2 : t \in Elems(state.notes[i].tags)

(* C5: after INIT state.notes has every pinned note before every unpinned *)
(* one, and within each group updatedAt does not increase along the list.  *)
C5_NotesOrdered ==
    Loaded =>
       \A i, j \in 1..Len(state.notes) :
          i < j =>
             /\ ~(~state.notes[i].pinned /\ state.notes[j].pinned)
             /\ state.notes[i].pinned = state.notes[j].pinned =>
                   state.notes[i].updatedAt >= state.notes[j].updatedAt

\* the older of two unpinned notes was edited last and now comes first
C5_Witness ==
    /\ Loaded
    /\ Len(state.notes) = 2
    /\ state.notes[1].id < state.notes[2].id
    /\ ~state.notes[1].pinned /\ ~state.notes[2].pinned
    /\ state.notes[1].createdAt < state.notes[2].createdAt

(* C6: list() never raises and never modifies storage: it returns the    *)
(* stored array when the item is the JSON text of an array, and the empty *)
(* collection when the key is absent, the item is empty, is not JSON, or  *)
(* is the JSON text of something that is no array.                         *)
C6_ListNeverRaises ==
    /\ [](/\ list(storage).threw = "none"
          /\ list(storage).value =
                IF storage = NULL THEN <<>>
                ELSE IF storage.kind # "json" THEN <<>>
                ELSE IF storage.value.isArray THEN storage.value.items
                ELSE <<>>)
    /\ [][(pc = "loading" /\ pc' = "idle") =>
             storage' = storage /\ thrown' = "none" /\ ~state'.loading]_vars

\* the notes were loaded from an item that is not JSON
C6_Witness ==
    /\ storage = InvalidText
    /\ pc = "idle"
    /\ ~state.loading
    /\ state.notes = <<>>

(* C7: every write replaces the whole item, so the last write wins. When *)
(* a create, update or remove completes, the stored collection is what    *)
(* that call read at its start with only its own change applied. So when  *)
(* another provider wrote between the call's read and its write, what     *)
(* that provider stored is gone and what it removed or replaced is back;  *)
(* and when nothing was written in between, every stored note that the    *)
(* call is not about is still stored. A call that throws writes nothing.  *)
C7_LastWriteWins ==
    [][\A w \in Writers :
          (wpc[w] = "read" /\ wpc'[w] = "idle") =>
             LET read == wsnap[w]
                 op == wop[w]
                 before == Persisted
                 after == readLocal(storage').value
                 Others(n) == n.id # op.id
                 k == CHOOSE i \in 1..Len(read) :
                         read[i].id = op.id /\ \A j \in 1..(i - 1) : read[j].id # op.id
             IN /\ wlast' = "failed" => storage' = storage
                /\ wlast' # "failed" =>
                      /\ storage' = JSONstringify(after)
                      /\ op.type = "create" => after = Append(read, op.note)
                      /\ op.type = "remove" => IsSelection(after, read, Others)
                      /\ op.type = "update" =>
                            /\ Len(after) = Len(read)
                            /\ \A i \in 1..Len(read) : i # k => after[i] = read[i]
                            /\ after[k] = [read[k] EXCEPT !.pinned = op.patch.pinned,
                                                          !.updatedAt = now]
                      /\ \A n \in Elems(before) : n \notin Elems(read) => n \notin Elems(after)
                      /\ \A n \in Elems(read) :
                            (n \notin Elems(before) /\ (op.type = "create" \/ n.id # op.id))
                               => n \in Elems(after)
                      /\ read = before =>
                            \A n \in Elems(before) :
                               (op.type = "create" \/ n.id # op.id) => n \in Elems(after)
      ]_vars

\* both providers are done, and the write of the later one has dropped a
\* note that the other had stored since the later one's read
C7_Witness ==
    /\ wlast = "lost"
    /\ \A w \in Writers : wpc[w] = "idle"

(* C8: a provider call that fails changes nothing. A handler whose call   *)
(* raised leaves storage and the whole state (notes, editorOpen,          *)
(* editingNote) as they were and dispatches nothing; update() for an id   *)
(* that storage does not hold raises 'Note not found', so an update that  *)
(* goes on to its dispatch was for an id that storage holds.               *)
C8_FailureChangesNothing ==
    [][/\ (pc = "idle" /\ thrown' # "none") =>
             /\ storage' = storage
             /\ state' = state
             /\ pc' = "idle"
             /\ pending' = NULL
       /\ (pc = "idle" /\ thrown' = "Note not found") =>
             /\ state.editingNote # NULL
             /\ state.editingNote.id \notin IdsOf(Persisted)
       /\ (pc = "idle" /\ pc' = "save" /\ state.editingNote # NULL) =>
             state.editingNote.id \in IdsOf(Persisted)
       /\ (pc = "idle" /\ pc' = "togglePin") =>
             pending'.id \in IdsOf(Persisted)
      ]_vars

\* the edit of a note that was deleted meanwhile has been rejected and the
\* editor is still open on it
C8_Witness ==
    /\ thrown = "Note not found"
    /\ pc = "idle"
    /\ state.editorOpen
    /\ state.editingNote # NULL
    /\ Len(state.notes) = 1

(* C9: deleting by id removes the notes with that id and nothing else,    *)
(* first from storage and then from state.notes: the other notes keep     *)
(* their values and their order, and search, selectedTag, editorOpen and  *)
(* editingNote are untouched. Deleting an id that is not there leaves     *)
(* both collections as they were.                                          *)
C9_DeleteFrame ==
    [][/\ (pc = "idle" /\ pc' = "delete") =>
             LET Others(n) == n.id # pending'
             IN /\ IsSelection(readLocal(storage').value, Persisted, Others)
                /\ pending' \notin IdsOf(readLocal(storage').value)
                /\ pending' \notin IdsOf(Persisted) =>
                      readLocal(storage').value = Persisted
                /\ state' = state
       /\ (pc = "delete" /\ pc' = "idle") =>
             LET Others(n) == n.id # pending
             IN /\ IsSelection(state'.notes, state.notes, Others)
                /\ pending \notin IdsOf(state'.notes)
                /\ pending \notin IdsOf(state.notes) => state'.notes = state.notes
                /\ state'.search = state.search
                /\ state'.selectedTag = state.selectedTag
                /\ state'.editorOpen = state.editorOpen
                /\ state'.editingNote = state.editingNote
                /\ storage' = storage
      ]_vars

\* one of two notes has been removed from storage and is about to be
\* removed from state.notes
C9_Witness ==
    /\ pc = "delete"
    /\ Len(state.notes) = 2
    /\ pending \in IdsOf(state.notes)
    /\ Len(Persisted) = 1

(* C10: an edit or a pin toggle changes only the note it is about. In     *)
(* storage the note keeps its id and createdAt, its updatedAt becomes the *)
(* time of the update and is not smaller than before, a toggle flips      *)
(* pinned and leaves title, content and tags, an edit sets title,         *)
(* content, tags and pinned to the submitted values, and every other note *)
(* is unchanged; the dispatch then replaces that note in state.notes and  *)
(* keeps the number of notes and every other note.                         *)
C10_UpdateFrame ==
    [][/\ (pc = "idle" /\ (pc' = "togglePin" \/ (pc' = "save" /\ state.editingNote # NULL))) =>
             LET before == Persisted
                 after == readLocal(storage').value
                 old == CHOOSE n \in Elems(before) : n.id = pending'.id
             IN /\ pending'.id \in IdsOf(before)
                /\ pending'.createdAt = old.createdAt
                /\ pending'.updatedAt = now
                /\ pending'.updatedAt >= old.updatedAt
                /\ Len(after) = Len(before)
                /\ \A i \in 1..Len(before) :
                      after[i] = IF before[i].id = pending'.id THEN pending' ELSE before[i]
                /\ pc' = "togglePin" =>
                      /\ pending'.pinned = ~old.pinned
                      /\ pending'.title = old.title
                      /\ pending'.content = old.content
                      /\ pending'.tags = old.tags
                /\ pc' = "save" =>
                      /\ pending'.id = state.editingNote.id
                      /\ \E input \in FormInputs :
                            /\ pending'.title = onSubmit(input).title
                            /\ pending'.content = onSubmit(input).content
                            /\ pending'.tags = onSubmit(input).tags
                            /\ pending'.pinned = onSubmit(input).pinned
       /\ (pc \in {"save", "togglePin"} /\ pc' = "idle" /\ pending.id \in IdsOf(state.notes)) =>
             /\ Len(state'.notes) = Len(state.notes)
             /\ pending \in Elems(state'.notes)
             /\ \A n \in Elems(state.notes) : n.id # pending.id => n \in Elems(state'.notes)
             /\ \A n \in Elems(state'.notes) : n.id # pending.id => n \in Elems(state.notes)
      ]_vars

\* the edit of one of two notes has been stored with a new title
C10_Witness ==
    /\ pc = "save"
    /\ state.editingNote # NULL
    /\ Len(state.notes) = 2
    /\ pending.id = state.editingNote.id
    /\ pending.title # state.editingNote.title
    /\ pending.updatedAt > state.editingNote.updatedAt

----------------------------------------------------------------------------
(* C11: every save whose provider call succeeds ends with the editor closed
   (editorOpen false, editingNote null) and with the saved note in
   state.notes.  A save with no editingNote adds exactly one new note, whose
   id occurs neither in state.notes nor elsewhere in storage and whose
   createdAt equals its updatedAt; a save with an editingNote replaces the
   note of that id and adds none.  editingNote is non-null only while
   editorOpen is true. *)
C11_SaveClosesEditor ==
    /\ [](state.editingNote # NULL => state.editorOpen)
    /\ [][ (pc = "save" /\ pc' = "idle") =>
             /\ ~state'.editorOpen
             /\ state'.editingNote = NULL
             /\ pending \in Elems(state'.notes)
             /\ Cardinality({i \in 1..Len(state'.notes) :
                                state'.notes[i].id = pending.id}) = 1
             /\ \A n \in Elems(state.notes) :
                    n.id # pending.id => n \in Elems(state'.notes)
             /\ state.editingNote = NULL =>
                    /\ pending.id \notin IdsOf(state.notes)
                    /\ Cardinality({i \in 1..Len(Persisted) :
                                       Persisted[i].id = pending.id}) = 1
                    /\ pending.createdAt = pending.updatedAt
                    /\ Len(state'.notes) = Len(state.notes) + 1
             /\ state.editingNote # NULL =>
                    /\ pending.id = state.editingNote.id
                    /\ pending.id \in IdsOf(state.notes)
                    /\ Len(state'.notes) = Len(state.notes)
                    /\ IdsOf(state'.notes) = IdsOf(state.notes)
      ]_vars

\* a new note has been stored while one note is already listed, and the
\* editor is still open on the empty form
C11_Witness ==
    /\ pc = "save"
    /\ state.editorOpen
    /\ state.editingNote = NULL
    /\ Len(state.notes) = 1
    /\ pending.id \notin IdsOf(state.notes)
    /\ Len(Persisted) = 2

----------------------------------------------------------------------------
(* C12: SET_SEARCH, SET_TAG, OPEN_EDITOR, CLOSE_EDITOR and an action of an
   unknown type never change state.notes and never write to storage.  Each
   changes only its own fields: SET_SEARCH sets search, SET_TAG sets
   selectedTag, OPEN_EDITOR and CLOSE_EDITOR set editorOpen and editingNote;
   an unknown action returns the state as it was.  The first conjunct applies
   the reducer to every reachable state; the second covers the steps of the
   App that dispatch a view action, which are the steps from idle to idle
   that change the state. *)
C12_ViewActionsFrame ==
    /\ [](/\ \A v \in SearchInputs :
               reducer(state, [type |-> "SET_SEARCH", value |-> v])
                   = [loading |-> state.loading, notes |-> state.notes,
                      search |-> v, selectedTag |-> state.selectedTag,
                      editorOpen |-> state.editorOpen,
                      editingNote |-> state.editingNote]
          /\ \A v \in {ALL} \cup Elems(tagsOf(state.notes)) :
               reducer(state, [type |-> "SET_TAG", value |-> v])
                   = [loading |-> state.loading, notes |-> state.notes,
                      search |-> state.search, selectedTag |-> v,
                      editorOpen |-> state.editorOpen,
                      editingNote |-> state.editingNote]
          /\ \A n \in {NULL} \cup Elems(state.notes) :
               reducer(state, [type |-> "OPEN_EDITOR", note |-> n])
                   = [loading |-> state.loading, notes |-> state.notes,
                      search |-> state.search,
                      selectedTag |-> state.selectedTag,
                      editorOpen |-> TRUE, editingNote |-> n]
          /\ reducer(state, [type |-> "CLOSE_EDITOR"])
                   = [loading |-> state.loading, notes |-> state.notes,
                      search |-> state.search,
                      selectedTag |-> state.selectedTag,
                      editorOpen |-> FALSE, editingNote |-> NULL]
          /\ reducer(state, [type |-> "UNKNOWN"]) = state)
    /\ [][ (pc = "idle" /\ pc' = "idle" /\ state' # state) =>
             /\ storage' = storage
             /\ state'.notes = state.notes
             /\ state'.loading = state.loading
             /\ state'.search # state.search =>
                    /\ state'.selectedTag = state.selectedTag
                    /\ state'.editorOpen = state.editorOpen
                    /\ state'.editingNote = state.editingNote
             /\ state'.selectedTag # state.selectedTag =>
                    /\ state'.search = state.search
                    /\ state'.editorOpen = state.editorOpen
                    /\ state'.editingNote = state.editingNote
             /\ (\/ state'.editorOpen # state.editorOpen
                 \/ state'.editingNote # state.editingNote) =>
                    /\ state'.search = state.search
                    /\ state'.selectedTag = state.selectedTag
      ]_vars

\* with two notes listed and stored, a search has been typed, a tag chosen
\* and the editor opened on a note
C12_Witness ==
    /\ pc = "idle"
    /\ Len(state.notes) = 2
    /\ Len(Persisted) = 2
    /\ state.search # <<>>
    /\ state.selectedTag # ALL
    /\ state.editorOpen
    /\ state.editingNote # NULL

----------------------------------------------------------------------------
(* C13: the items start with no two notes of one id and every generated id
   is new, and then no two notes of state.notes and no two stored notes ever
   share an id, whatever saves, edits, pin toggles and deletes have run.  An
   upsert of a note whose id is listed replaces that note: the list keeps
   its length and its ids, and a result waiting to be dispatched does so
   too. *)
C13_IdsUnique ==
    /\ \A i, j \in 1..Len(state.notes) :
          state.notes[i].id = state.notes[j].id => i = j
    /\ \A i, j \in 1..Len(Persisted) :
          Persisted[i].id = Persisted[j].id => i = j
    /\ \A n \in Elems(state.notes) :
          LET changed == upsert(state.notes, [n EXCEPT !.pinned = ~n.pinned])
          IN /\ Len(changed) = Len(state.notes)
             /\ IdsOf(changed) = IdsOf(state.notes)
    /\ pc \in {"save", "togglePin"} =>
          LET next == upsert(state.notes, pending)
          IN \A i, j \in 1..Len(next) : next[i].id = next[j].id => i = j

\* two notes are listed and stored, and the stored pin toggle of one of
\* them is waiting to be dispatched as an upsert of a listed id
C13_Witness ==
    /\ pc = "togglePin"
    /\ Len(state.notes) = 2
    /\ Len(Persisted) = 2
    /\ pending.id \in IdsOf(state.notes)
    /\ pending \in Elems(Persisted)
    /\ pending \notin Elems(state.notes)

====
